---- MODULE Spec2Model ----
(***************************************************************************)
(* plottool: the persistence and update engine.                            *)
(*                                                                         *)
(* Four backing files (ids.json, bundles.json, prices.csv,                 *)
(* bundle_prices.csv) plus the shared tmp.csv, the foreground command      *)
(* handler (commands.py) and the background update thread (background.py). *)
(* The csv module's DictReader / DictWriter are modelled by what they do   *)
(* to a line of fields, so that a row shorter or longer than the header    *)
(* is something a state can hold.                                          *)
(***************************************************************************)
EXTENDS Integers, Sequences, FiniteSets, TLC

\* ------------------------------------------------------------------ bounds
\* Ids the user may type.  Both are ids the quote source knows.
Assets == {"btc", "eth"}
BundleIds == {"b1", "b2"}
\* Amounts a user gives to add_to_bundle are 1..MaxWeight.
MaxWeight == 2
\* The quote source answers with a price in 1..MaxPrice per asset.
MaxPrice == 1
\* Conversion factors a user gives to change_vs_currency.
Factors == {0, 2}
\* The foreground processes at most MaxCmds commands.
MaxCmds == 4
\* Without overlap of commands and updates, at most MaxSeqCmds commands.
MaxSeqCmds == 5
\* The clock hands out timestamps 1..MaxTicks (one per successful fetch).
MaxTicks == 2
\* The single caller of the control surface makes at most MaxCalls calls.
MaxCalls == 5

\* --------------------------------------------------------------- constants
MAX_UPDATE_RETRIES == 3

\* A csv field holding the empty string (what DictWriter writes for a key a
\* row lacks, and for None).
Empty == -1
\* Python's None, DictReader's value for a column a short line lacks.
NoneVal == -2

TS == "timestamp"

\* ----------------------------------------------------------------- helpers
Range(s) == {s[i] : i \in DOMAIN s}
Max(S) == CHOOSE x \in S : \A y \in S : y <= x
Min(S) == CHOOSE x \in S : \A y \in S : x <= y

RECURSIVE SumOver(_, _)
SumOver(S, f) ==
  IF S = {} THEN 0
  ELSE LET x == CHOOSE y \in S : TRUE IN f[x] + SumOver(S \ {x}, f)

\* list.remove(x): the list without the first occurrence of x.
ListRemove(s, x) ==
  LET k == Min({i \in DOMAIN s : s[i] = x})
  IN [i \in 1..(Len(s) - 1) |-> IF i < k THEN s[i] ELSE s[i + 1]]

\* ------------------------------------------------------------------- files
\* A csv file: its header line and its data lines, each line a sequence of
\* fields.  NoFile is a path that does not exist.  A file whose header is
\* <<>> has no header line (an empty file, or one created by an append).
NoFile == [exists |-> FALSE, header |-> <<>>, rows |-> <<>>]
CsvFile(header, rows) == [exists |-> TRUE, header |-> header, rows |-> rows]
PRICES_DEFAULT_STATE == CsvFile(<<TS>>, <<>>)
BUNDLE_PRICES_DEFAULT_STATE == CsvFile(<<TS>>, <<>>)
IDS_DEFAULT_STATE == <<>>
BUNDLES_DEFAULT_STATE == <<>>

\* csv.DictReader on one line: the dict of the header's names (a name that
\* occurs twice keeps its last field), None for the names a short line
\* lacks, and the surplus fields of a long line under the key None (rest).
DictReader(fieldnames, fields) ==
  [val |-> [k \in Range(fieldnames) |->
             LET last == Max({i \in DOMAIN fieldnames : fieldnames[i] = k})
             IN IF last <= Len(fields) THEN fields[last] ELSE NoneVal],
   rest |-> IF Len(fields) > Len(fieldnames)
            THEN SubSeq(fields, Len(fieldnames) + 1, Len(fields))
            ELSE <<>>]

\* A dict built in the program (no None key).
Dict(f) == [val |-> f, rest |-> <<>>]
SetKey(d, k, v) ==
  [d EXCEPT !.val = [x \in (DOMAIN d.val) \cup {k} |->
                       IF x = k THEN v ELSE d.val[x]]]
PopKey(d, k) == [d EXCEPT !.val = [x \in (DOMAIN d.val) \ {k} |-> d.val[x]]]

\* csv.DictWriter.writerow (extrasaction="raise", restval=""): raises on a
\* key that is no fieldname, writes "" for a missing key and for None.
DictWriterOk(fieldnames, d) ==
  d.rest = <<>> /\ (DOMAIN d.val) \subseteq Range(fieldnames)
DictWriterRow(fieldnames, d) ==
  [i \in DOMAIN fieldnames |->
     IF fieldnames[i] \in DOMAIN d.val
     THEN (IF d.val[fieldnames[i]] = NoneVal THEN Empty
           ELSE d.val[fieldnames[i]])
     ELSE Empty]
WriteRow(fieldnames, d) ==
  [ok |-> DictWriterOk(fieldnames, d), row |-> DictWriterRow(fieldnames, d)]

\* float(x) raises on "" (ValueError) and on None (TypeError).
FloatOk(v) == v >= 0

\* The lines a row loop has written when it ends or raises: res[i] is the
\* outcome of line i, and the loop stops at the first line that raises.
Written(res) ==
  LET bad == {i \in DOMAIN res : ~res[i].ok}
      n == IF bad = {} THEN Len(res) ELSE Min(bad) - 1
  IN [ok |-> bad = {}, rows |-> [i \in 1..n |-> res[i].row]]

\* Results of the functions that write tmp.csv: ok (no exception), wrote
\* (tmp.csv was opened for writing) and file (what tmp.csv then holds).
Raised(wrote, file) == [ok |-> FALSE, wrote |-> wrote, file |-> file]

\* ---------------------------------------------------------------- registry
\* bundles.json: the bundles in insertion order, each with its contents
\* (cryptocurrency id -> amount).
load_bundle_ids(bs) == [i \in DOMAIN bs |-> bs[i].id]
HasBundle(bs, b) == \E i \in DOMAIN bs : bs[i].id = b
BundleIdx(bs, b) == CHOOSE i \in DOMAIN bs : bs[i].id = b
load_bundle(bs, b) == bs[BundleIdx(bs, b)].cur
\* exists_in_bundles looking the id up among the bundles' ids.
exists_in_bundles_by_bundle_id(bs, a) == a \in Range(load_bundle_ids(bs))
exists_in_bundles(bs, a) == \E i \in DOMAIN bs : a \in DOMAIN bs[i].cur
\* valid_cryptocurrency_ids asking whether the quote source knows the id.
valid_cryptocurrency_ids_known(idl, a) == a \in Assets
valid_cryptocurrency_ids(idl, a) == a \in Range(idl)

\* sum([float(row[c]) * amount for c, amount in cryptocurrencies.items()])
PriceSumOk(d, cur) ==
  \A c \in DOMAIN cur : c \in DOMAIN d.val /\ FloatOk(d.val[c])
\* The sum of the prices, the amounts left out.
PriceSumUnweighted(d, cur) ==
  SumOver(DOMAIN cur, [c \in DOMAIN cur |-> d.val[c]])
PriceSum(d, cur) ==
  SumOver(DOMAIN cur, [c \in DOMAIN cur |-> d.val[c] * cur[c]])

\* ------------------------------------------------------------ file.py: csv
\* add_column_to_csv writing tmp.csv under the header it read.
add_column_to_csv_old_header(f, column_name) ==
  IF ~f.exists THEN Raised(FALSE, NoFile)
  ELSE
    LET header == f.header
        res == [i \in DOMAIN f.rows |->
                 WriteRow(header,
                          SetKey(DictReader(f.header, f.rows[i]),
                                 column_name, 0))]
        w == Written(res)
    IN [ok |-> w.ok, wrote |-> TRUE, file |-> CsvFile(header, w.rows)]

\* add_column_to_csv leaving the new column's field empty.
add_column_to_csv_blank(f, column_name) ==
  IF ~f.exists THEN Raised(FALSE, NoFile)
  ELSE
    LET header == f.header \o <<column_name>>
        res == [i \in DOMAIN f.rows |->
                 WriteRow(header, DictReader(f.header, f.rows[i]))]
        w == Written(res)
    IN [ok |-> w.ok, wrote |-> TRUE, file |-> CsvFile(header, w.rows)]

add_column_to_csv(f, column_name) ==
  IF ~f.exists THEN Raised(FALSE, NoFile)
  ELSE
    LET header == f.header \o <<column_name>>
        res == [i \in DOMAIN f.rows |->
                 WriteRow(header,
                          SetKey(DictReader(f.header, f.rows[i]),
                                 column_name, 0))]
        w == Written(res)
    IN [ok |-> w.ok, wrote |-> TRUE, file |-> CsvFile(header, w.rows)]

\* remove_column_from_csv dropping the last column, whatever the name.
remove_column_from_csv_last(f, column_name) ==
  IF ~f.exists THEN Raised(FALSE, NoFile)
  ELSE IF column_name \notin Range(f.header)
  THEN Raised(TRUE, CsvFile(<<>>, <<>>))
  ELSE
    LET header == SubSeq(f.header, 1, Len(f.header) - 1)
        res == [i \in DOMAIN f.rows |->
                 WriteRow(header,
                          PopKey(DictReader(f.header, f.rows[i]),
                                 f.header[Len(f.header)]))]
        w == Written(res)
    IN [ok |-> w.ok, wrote |-> TRUE, file |-> CsvFile(header, w.rows)]

\* remove_column_from_csv writing tmp.csv under the header it read.
remove_column_from_csv_old_header(f, column_name) ==
  IF ~f.exists THEN Raised(FALSE, NoFile)
  ELSE IF column_name \notin Range(f.header)
  THEN Raised(TRUE, CsvFile(<<>>, <<>>))
  ELSE
    LET header == f.header
        res == [i \in DOMAIN f.rows |->
                 WriteRow(header,
                          PopKey(DictReader(f.header, f.rows[i]),
                                 column_name))]
        w == Written(res)
    IN [ok |-> w.ok, wrote |-> TRUE, file |-> CsvFile(header, w.rows)]

remove_column_from_csv(f, column_name) ==
  IF ~f.exists THEN Raised(FALSE, NoFile)
  ELSE IF column_name \notin Range(f.header)
  THEN Raised(TRUE, CsvFile(<<>>, <<>>))
  ELSE
    LET header == ListRemove(f.header, column_name)
        res == [i \in DOMAIN f.rows |->
                 WriteRow(header,
                          PopKey(DictReader(f.header, f.rows[i]),
                                 column_name))]
        w == Written(res)
    IN [ok |-> w.ok, wrote |-> TRUE, file |-> CsvFile(header, w.rows)]

\* update_bundle_prices keeping only the timestamp of a row it read.
update_bundle_prices_fresh_rows(pr, bp, bs, bundle_id, cryptocurrencies) ==
  LET header == <<TS>> \o load_bundle_ids(bs)
  IN IF ~pr.exists \/ ~bp.exists THEN Raised(TRUE, CsvFile(header, <<>>))
     ELSE
       LET n == Max({Len(pr.rows), Len(bp.rows)})
           one(i) ==
             LET hasP == i <= Len(pr.rows)
                 cur_price_row ==
                   IF hasP THEN DictReader(pr.header, pr.rows[i])
                   ELSE Dict(<<>>)
                 bundle_price_prow ==
                   IF i <= Len(bp.rows)
                   THEN Dict([k \in {TS} |->
                                DictReader(bp.header, bp.rows[i]).val[TS]])
                   ELSE Dict([k \in {TS} |-> cur_price_row.val[TS]])
                 sumOk == DOMAIN cryptocurrencies = {}
                          \/ (hasP /\ PriceSumOk(cur_price_row,
                                                 cryptocurrencies))
                 row == SetKey(bundle_price_prow, bundle_id,
                               IF sumOk
                               THEN PriceSum(cur_price_row, cryptocurrencies)
                               ELSE 0)
             IN [ok |-> sumOk /\ DictWriterOk(header, row),
                 row |-> DictWriterRow(header, row)]
           w == Written([i \in 1..n |-> one(i)])
       IN [ok |-> w.ok, wrote |-> TRUE, file |-> CsvFile(header, w.rows)]

update_bundle_prices(pr, bp, bs, bundle_id, cryptocurrencies) ==
  LET header == <<TS>> \o load_bundle_ids(bs)
  IN IF ~pr.exists \/ ~bp.exists THEN Raised(TRUE, CsvFile(header, <<>>))
     ELSE
       LET n == Max({Len(pr.rows), Len(bp.rows)})
           one(i) ==
             LET hasP == i <= Len(pr.rows)
                 cur_price_row ==
                   IF hasP THEN DictReader(pr.header, pr.rows[i])
                   ELSE Dict(<<>>)
                 bundle_price_prow ==
                   IF i <= Len(bp.rows) THEN DictReader(bp.header, bp.rows[i])
                   ELSE Dict([k \in {TS} |-> cur_price_row.val[TS]])
                 sumOk == DOMAIN cryptocurrencies = {}
                          \/ (hasP /\ PriceSumOk(cur_price_row,
                                                 cryptocurrencies))
                 row == SetKey(bundle_price_prow, bundle_id,
                               IF sumOk
                               THEN PriceSum(cur_price_row, cryptocurrencies)
                               ELSE 0)
             IN [ok |-> sumOk /\ DictWriterOk(header, row),
                 row |-> DictWriterRow(header, row)]
           w == Written([i \in 1..n |-> one(i)])
       IN [ok |-> w.ok, wrote |-> TRUE, file |-> CsvFile(header, w.rows)]

convert_price_file_values(f, header, factor) ==
  IF ~f.exists THEN Raised(TRUE, CsvFile(header, <<>>))
  ELSE
    LET one(i) ==
          LET d == DictReader(f.header, f.rows[i])
              floats == d.rest = <<>>
                        /\ \A k \in (DOMAIN d.val) \ {TS} : FloatOk(d.val[k])
              row == [d EXCEPT !.val =
                        [k \in DOMAIN d.val |->
                           IF k # TS /\ floats THEN d.val[k] * factor
                           ELSE d.val[k]]]
          IN [ok |-> floats /\ DictWriterOk(header, row),
              row |-> DictWriterRow(header, row)]
        w == Written([i \in DOMAIN f.rows |-> one(i)])
    IN [ok |-> w.ok, wrote |-> TRUE, file |-> CsvFile(header, w.rows)]

\* open(filename, "a") creates a missing file; writerow then appends a line
\* or raises before anything is written.
write_csv_entry(f, data, header) ==
  LET opened == IF f.exists THEN f ELSE CsvFile(<<>>, <<>>)
  IN IF DictWriterOk(header, data)
     THEN [ok |-> TRUE,
           file |-> [opened EXCEPT
                       !.rows = Append(@, DictWriterRow(header, data))]]
     ELSE [ok |-> FALSE, file |-> opened]

write_cryptocur_prices_entry(f, idl, data, header) ==
  LET h == IF header = <<>> THEN <<TS>> \o idl ELSE header
  IN IF \E i \in 2..Len(h) : h[i] \notin DOMAIN data.val
     THEN [ok |-> FALSE, file |-> f]
     ELSE write_csv_entry(f, data, h)

write_bundle_prices_entry(f, bs, cryptocur_prices) ==
  LET header == <<TS>> \o load_bundle_ids(bs)
      ok == \A i \in DOMAIN bs : PriceSumOk(cryptocur_prices, bs[i].cur)
      bundle_prices_row ==
        Dict([k \in {TS} \cup Range(load_bundle_ids(bs)) |->
                IF k = TS THEN cryptocur_prices.val[TS]
                ELSE IF ok
                THEN PriceSum(cryptocur_prices, load_bundle(bs, k))
                ELSE 0])
  IN IF ok THEN write_csv_entry(f, bundle_prices_row, header)
     ELSE [ok |-> FALSE, file |-> f]

\* ------------------------------------------------------- background.py: api
\* BackgroundUpdateThread's fields.  status "NONE" stands for
\* CommandHandler._background_updater being None.
NoUpdater ==
  [status |-> "NONE", stop |-> FALSE, error_count |-> 0,
   currency_ids |-> <<>>, last_update |-> 0]
\* __init__ on a non-empty ids.json.
NewUpdater(idl) ==
  [status |-> "RUNNING", stop |-> FALSE, error_count |-> 0,
   currency_ids |-> idl, last_update |-> 0]

\* pause(): the test, then the assignment.
pause_test(status) == status = "RUNNING"
pause_set(u) == [u EXCEPT !.status = "PAUSED"]
\* pause() testing for "not paused" instead of "running".
pause_unless_paused(u) == IF u.status # "PAUSED" THEN pause_set(u) ELSE u
pause(u) == IF pause_test(u.status) THEN pause_set(u) ELSE u
\* resume(): the test, then the assignment.
resume_test(status) == status = "PAUSED"
resume_set(u) == [u EXCEPT !.status = "RUNNING"]
resume(u) == IF resume_test(u.status) THEN resume_set(u) ELSE u
\* stop(): the status, then the event.
stop(u) == [u EXCEPT !.status = "STOPPED", !.stop = TRUE]
stopped(u) == u.stop
\* _increase_error_count comparing with >= instead of >.
increase_error_count_ge(u) ==
  LET v == [u EXCEPT !.error_count = @ + 1]
  IN IF v.error_count >= MAX_UPDATE_RETRIES THEN stop(v) ELSE v
increase_error_count(u) ==
  LET v == [u EXCEPT !.error_count = @ + 1]
  IN IF v.error_count > MAX_UPDATE_RETRIES THEN stop(v) ELSE v

\* ------------------------------------------------------------ read functions
\* The initial "min" of load_cryptocur_statistics, and the line counts of
\* calculate_plotting_point_ratio.
INITIAL_MIN == 100000000
RATIO_FROM_LINES == 2000
RATIO_DIVISOR == 1000

\* _read_csv: the dicts of the data lines.
read_csv(f) == [i \in DOMAIN f.rows |-> DictReader(f.header, f.rows[i])]

Occurrences(s, c) == Cardinality({i \in DOMAIN s : s[i] = c})

RECURSIVE SeqSum(_, _, _)
SeqSum(s, lo, hi) ==
  IF lo > hi THEN 0
  ELSE IF lo = hi THEN s[lo]
  ELSE LET mid == (lo + hi) \div 2
       IN SeqSum(s, lo, mid) + SeqSum(s, mid + 1, hi)

\* The loop of the loaders over the lines numbered in `lines` (1-based):
\* each such line appends its timestamp, and for every entry of `columns`
\* its float(row[col]) when that is > 0.  KeyError for a column the file
\* lacks, ValueError / TypeError for "" / None.
\* With `zeros`, a value of 0 is appended as well.
LoadColumnsKeeping(f, columns, lines, zeros) ==
  LET rows == read_csv(f)
      readable(d) ==
        /\ TS \in DOMAIN d.val /\ d.val[TS] >= 0
        /\ \A c \in Range(columns) : c \in DOMAIN d.val /\ FloatOk(d.val[c])
      ok == f.exists /\ \A m \in DOMAIN lines : readable(rows[lines[m]])
      appended(c) ==
        LET k == Occurrences(columns, c)
            visited == [m \in 1..(Len(lines) * k) |->
                          rows[lines[(m - 1) \div k + 1]].val[c]]
        IN SelectSeq(visited, LAMBDA v : v > 0 \/ (zeros /\ v >= 0))
  IN [ok |-> ok,
      val |-> IF ok
              THEN [timestamp |-> [m \in DOMAIN lines |->
                                     rows[lines[m]].val[TS]],
                    cols |-> [c \in Range(columns) |-> appended(c)]]
              ELSE <<>>]
LoadColumns(f, columns, lines) ==
  LoadColumnsKeeping(f, columns, lines, FALSE)

AllLines(f) == [i \in 1..Len(f.rows) |-> i]
\* `if not cryptocurrency_ids: cryptocurrency_ids = load_...()`
Requested(request, all) == IF request = <<>> THEN all ELSE request

\* load_cryptocur_prices appending zero prices as well.
load_cryptocur_prices_with_zeros(f, all_ids, request) ==
  LoadColumnsKeeping(f, Requested(request, all_ids), AllLines(f), TRUE)
load_cryptocur_prices(f, all_ids, request) ==
  LoadColumns(f, Requested(request, all_ids), AllLines(f))

\* load_cryptocur_statistics: min, max and mean (sum over count) of the
\* values that are not 0, starting from min = INITIAL_MIN and max = 0.
load_cryptocur_statistics(f, all_ids, request) ==
  LET columns == Requested(request, all_ids)
      rows == read_csv(f)
      ok == /\ f.exists
            /\ \A i \in DOMAIN rows : \A c \in Range(columns) :
                 c \in DOMAIN rows[i].val /\ FloatOk(rows[i].val[c])
      stats(c) ==
        LET k == Occurrences(columns, c)
            visited == [m \in 1..(Len(rows) * k) |->
                          rows[(m - 1) \div k + 1].val[c]]
            nums == SelectSeq(visited, LAMBDA v : v # 0)
        IN [min |-> IF nums = <<>> THEN 0
                    ELSE Min({INITIAL_MIN} \cup Range(nums)),
            max |-> Max({0} \cup Range(nums)),
            mean |-> IF nums = <<>> THEN [sum |-> 0, count |-> 1]
                     ELSE [sum |-> SeqSum(nums, 1, Len(nums)),
                           count |-> Len(nums)]]
  IN [ok |-> ok,
      val |-> IF ok THEN [c \in Range(columns) |-> stats(c)] ELSE <<>>]

\* get_csv_line_count: the number of lines but the header.
get_csv_line_count(f) == Len(f.rows)

\* calculate_plotting_point_ratio comparing with > instead of >=.
calculate_plotting_point_ratio_gt(p) ==
  LET prices_line_count == get_csv_line_count(p)
  IN IF prices_line_count > RATIO_FROM_LINES
     THEN prices_line_count \div RATIO_DIVISOR
     ELSE 1
calculate_plotting_point_ratio(p) ==
  LET prices_line_count == get_csv_line_count(p)
  IN IF prices_line_count >= RATIO_FROM_LINES
     THEN prices_line_count \div RATIO_DIVISOR
     ELSE 1

\* The line numbers (1-based) with linenum % point_ratio = 0, linenum
\* counting from 0.
Sampled(n, point_ratio) ==
  SelectSeq([i \in 1..n |-> i], LAMBDA i : (i - 1) % point_ratio = 0)

\* _load_plotting_prices(filename, columns); p is prices.csv, whose line
\* count gives the ratio for either file.
load_plotting_prices(f, p, columns) ==
  IF ~p.exists THEN [ok |-> FALSE, val |-> <<>>]
  ELSE LoadColumns(f, columns,
                   Sampled(Len(f.rows), calculate_plotting_point_ratio(p)))
load_cryptocur_plot_prices(p, all_ids, request) ==
  load_plotting_prices(p, p, Requested(request, all_ids))
load_bundle_plot_prices(bp, p, bs, request) ==
  load_plotting_prices(bp, p, Requested(request, load_bundle_ids(bs)))

\* ------------------------------------------------------------------- state
VARIABLES
  ids,            \* ids.json
  bundles,        \* bundles.json
  prices,         \* prices.csv
  bundle_prices,  \* bundle_prices.csv
  tmp,            \* tmp.csv
  updater,        \* the BackgroundUpdateThread object (or NoUpdater)
  bg,             \* where the update thread is in run(), and its locals
  fg,             \* where the command handler is in a command, and its locals
  last,           \* the last command that returned, and how
  clock,          \* number of timestamps datetime.now() has handed out
  ncmds,          \* number of commands entered
  calls,          \* the control calls one caller has made (SpecCtl)
  sched,          \* how the two threads are scheduled (fixed by Init)
  ret             \* what the last call of a read function returned

disk == <<ids, bundles, prices, bundle_prices>>
vars == <<ids, bundles, prices, bundle_prices, tmp, updater, bg, fg, last,
          clock, ncmds, calls, sched, ret>>

Snapshot ==
  [ids |-> ids, bundles |-> bundles, prices |-> prices,
   bundle_prices |-> bundle_prices]

NoPre ==
  [ids |-> <<>>, bundles |-> <<>>, prices |-> NoFile,
   bundle_prices |-> NoFile]
\* No read function has been called.
NoRet == [fn |-> "none", request |-> <<>>, ok |-> TRUE, val |-> <<>>]
BgNone ==
  [pc |-> "none", result |-> Dict(<<>>), woke |-> "NONE", due |-> FALSE]
FgIdle ==
  [pc |-> "idle", cmd |-> "none", a |-> "", b |-> "", w |-> 0,
   out |-> <<>>, seen |-> "NONE", target |-> "", orig |-> NoFile,
   bgw |-> FALSE,
   pre |-> NoPre]
NoLast == [cmd |-> "none", ok |-> TRUE, a |-> "", b |-> "", pre |-> NoPre]

\* ensure_data_files_existence() on an empty data folder; no updater yet.
Init ==
  /\ ids = IDS_DEFAULT_STATE
  /\ bundles = BUNDLES_DEFAULT_STATE
  /\ prices = PRICES_DEFAULT_STATE
  /\ bundle_prices = BUNDLE_PRICES_DEFAULT_STATE
  /\ tmp = NoFile
  /\ updater = NoUpdater
  /\ bg = BgNone
  /\ fg = FgIdle
  /\ last = NoLast
  /\ clock = 0
  /\ ncmds = 0
  /\ calls = <<>>
  /\ sched = "interleaved"
  /\ ret = NoRet

\* ------------------------------------------------- commands.py: foreground
PausingCmds ==
  {"add_currency", "remove_currency", "add_to_bundle", "remove_from_bundle",
   "change_vs_currency"}
\* The first statement of a command after its pause.
FirstPc(cmd) == IF cmd = "change_vs_currency" THEN "gen" ELSE "body"
FirstTarget(cmd) ==
  IF cmd \in {"add_currency", "remove_currency", "change_vs_currency"}
  THEN "prices" ELSE "bundle_prices"

\* Scheduling.  Interleaved: at most MaxCmds commands, entered at any time.
\* Sequential: at most MaxSeqCmds commands, each entered only while the
\* thread is outside _update_prices; the thread moves only between commands.
InUpdate == bg.pc \in {"fetch", "write_prices", "write_bundles"}
CmdMayBegin ==
  IF sched = "sequential" THEN ncmds < MaxSeqCmds /\ ~InUpdate
  ELSE ncmds < MaxCmds
BgMayStep == sched = "sequential" => fg.pc = "idle"

\* _process_command dispatches a command; a command that pauses the updater
\* starts with pause()'s test of the status.
Begin(cmd, a, b, w) ==
  /\ fg.pc = "idle"
  /\ CmdMayBegin
  /\ ncmds' = ncmds + 1
  /\ fg' = [FgIdle EXCEPT
              !.cmd = cmd, !.a = a, !.b = b, !.w = w,
              !.seen = updater.status,
              !.target = FirstTarget(cmd),
              !.pre = Snapshot,
              !.pc = IF cmd \in PausingCmds /\ updater.status # "NONE"
                        /\ pause_test(updater.status)
                     THEN "pause_wr" ELSE FirstPc(cmd)]
  /\ UNCHANGED <<ids, bundles, prices, bundle_prices, tmp, updater, bg, last,
                 clock, calls, sched, ret>>

\* The command returned.  Where commands and updates do not overlap, the
\* files as they were when it was entered are remembered with it.
Return(ok) ==
  /\ fg' = FgIdle
  /\ last' = [cmd |-> fg.cmd, ok |-> ok, a |-> fg.a, b |-> fg.b,
              pre |-> IF sched = "sequential" THEN fg.pre ELSE NoPre]

\* pause()'s assignment.
FgPauseWrite ==
  /\ fg.pc = "pause_wr"
  /\ updater' = pause_set(updater)
  /\ fg' = [fg EXCEPT !.pc = FirstPc(fg.cmd)]
  /\ UNCHANGED <<ids, bundles, prices, bundle_prices, tmp, bg, last, clock,
                 ncmds, calls, sched, ret>>

add_currency(a) == Begin("add_currency", a, "", 0)
remove_currency(a) == Begin("remove_currency", a, "", 0)
create_bundle_cmd(b) == Begin("create_bundle", "", b, 0)
delete_bundle_cmd(b) == Begin("delete_bundle", "", b, 0)
add_to_bundle(b, a, w) == Begin("add_to_bundle", a, b, w)
remove_from_bundle(b, a) == Begin("remove_from_bundle", a, b, 0)
change_vs_currency(factor) == Begin("change_vs_currency", "", "", factor)
start_background_updater == Begin("start_updater", "", "", 0)
stop_background_updater == Begin("stop_updater", "", "", 0)

\* add_new_cryptocurrency without its test for the id being in ids.json.
add_new_cryptocurrency_unchecked ==
  /\ fg.pc = "body" /\ fg.cmd = "add_currency"
  /\ ids' = Append(ids, fg.a)
  /\ fg' = [fg EXCEPT !.pc = "gen", !.out = Append(ids, fg.a)]
  /\ UNCHANGED <<bundles, prices, bundle_prices, tmp, updater, bg, last,
                 clock, ncmds, calls, sched, ret>>

\* add_new_cryptocurrency up to and with _add_new_id.
add_new_cryptocurrency ==
  /\ fg.pc = "body" /\ fg.cmd = "add_currency"
  /\ IF fg.a \in Range(ids)
     THEN Return(FALSE) /\ UNCHANGED ids
     ELSE /\ ids' = Append(ids, fg.a)
          /\ fg' = [fg EXCEPT !.pc = "gen", !.out = Append(ids, fg.a)]
          /\ UNCHANGED last
  /\ UNCHANGED <<bundles, prices, bundle_prices, tmp, updater, bg, clock,
                 ncmds, calls, sched, ret>>

\* remove_cryptocurrency up to and with _remove_id.
remove_cryptocurrency ==
  /\ fg.pc = "body" /\ fg.cmd = "remove_currency"
  /\ IF fg.a \notin Range(ids) \/ exists_in_bundles(bundles, fg.a)
     THEN Return(FALSE) /\ UNCHANGED ids
     ELSE /\ ids' = ListRemove(ids, fg.a)
          /\ fg' = [fg EXCEPT !.pc = "gen", !.out = ListRemove(ids, fg.a)]
          /\ UNCHANGED last
  /\ UNCHANGED <<bundles, prices, bundle_prices, tmp, updater, bg, clock,
                 ncmds, calls, sched, ret>>

create_bundle ==
  /\ fg.pc = "body" /\ fg.cmd = "create_bundle"
  /\ IF HasBundle(bundles, fg.b)
     THEN Return(FALSE) /\ UNCHANGED bundles
     ELSE /\ bundles' = Append(bundles, [id |-> fg.b, cur |-> <<>>])
          /\ Return(TRUE)
  /\ UNCHANGED <<ids, prices, bundle_prices, tmp, updater, bg, clock, ncmds,
                 calls, sched, ret>>

\* delete_bundle up to the write of bundles.json.
delete_bundle ==
  /\ fg.pc = "body" /\ fg.cmd = "delete_bundle"
  /\ IF ~HasBundle(bundles, fg.b)
     THEN Return(FALSE) /\ UNCHANGED bundles
     ELSE /\ bundles' = [i \in 1..(Len(bundles) - 1) |->
                           IF i < BundleIdx(bundles, fg.b) THEN bundles[i]
                           ELSE bundles[i + 1]]
          /\ IF DOMAIN load_bundle(bundles, fg.b) # {}
             THEN fg' = [fg EXCEPT !.pc = "gen"] /\ UNCHANGED last
             ELSE Return(TRUE)
  /\ UNCHANGED <<ids, prices, bundle_prices, tmp, updater, bg, clock, ncmds,
                 calls, sched, ret>>

\* `cryptocur_id in bundles[bundle_id].values()`: an id (str) is compared
\* with the amounts (numbers), and a str never equals a number.
IdEqualsAmount(id, amount) == FALSE

\* add_cryptocur_to_bundle up to the write of bundles.json.
add_cryptocur_to_bundle ==
  /\ fg.pc = "body" /\ fg.cmd = "add_to_bundle"
  /\ IF \/ ~valid_cryptocurrency_ids(ids, fg.a)
        \/ ~HasBundle(bundles, fg.b)
        \/ \E c \in DOMAIN load_bundle(bundles, fg.b) :
             IdEqualsAmount(fg.a, load_bundle(bundles, fg.b)[c])
     THEN Return(FALSE) /\ UNCHANGED bundles
     ELSE /\ bundles' =
               [bundles EXCEPT ![BundleIdx(bundles, fg.b)].cur =
                  [c \in (DOMAIN @) \cup {fg.a} |->
                     IF c = fg.a THEN fg.w ELSE @[c]]]
          /\ fg' = [fg EXCEPT !.pc = "gen"]
          /\ UNCHANGED last
  /\ UNCHANGED <<ids, prices, bundle_prices, tmp, updater, bg, clock, ncmds,
                 calls, sched, ret>>

\* remove_cryptocur_from_bundle without its test for the id being in the
\* bundle (a pop that tolerates a missing key).
remove_cryptocur_from_bundle_any ==
  /\ fg.pc = "body" /\ fg.cmd = "remove_from_bundle"
  /\ IF ~HasBundle(bundles, fg.b)
     THEN Return(FALSE) /\ UNCHANGED bundles
     ELSE /\ bundles' =
               [bundles EXCEPT ![BundleIdx(bundles, fg.b)].cur =
                  [c \in (DOMAIN @) \ {fg.a} |-> @[c]]]
          /\ fg' = [fg EXCEPT !.pc = "gen"]
          /\ UNCHANGED last
  /\ UNCHANGED <<ids, prices, bundle_prices, tmp, updater, bg, clock, ncmds,
                 calls, sched, ret>>

\* remove_cryptocur_from_bundle up to the write of bundles.json.
remove_cryptocur_from_bundle ==
  /\ fg.pc = "body" /\ fg.cmd = "remove_from_bundle"
  /\ IF ~HasBundle(bundles, fg.b)
     THEN Return(FALSE) /\ UNCHANGED bundles
     ELSE IF fg.a \notin DOMAIN load_bundle(bundles, fg.b)
     THEN Return(FALSE) /\ UNCHANGED bundles
     ELSE /\ bundles' =
               [bundles EXCEPT ![BundleIdx(bundles, fg.b)].cur =
                  [c \in (DOMAIN @) \ {fg.a} |-> @[c]]]
          /\ fg' = [fg EXCEPT !.pc = "gen"]
          /\ UNCHANGED last
  /\ UNCHANGED <<ids, prices, bundle_prices, tmp, updater, bg, clock, ncmds,
                 calls, sched, ret>>

\* The part of each rewriting function that fills tmp.csv.
Generate ==
  CASE fg.cmd = "add_currency" -> add_column_to_csv(prices, fg.a)
    [] fg.cmd = "remove_currency" -> remove_column_from_csv(prices, fg.a)
    [] fg.cmd = "delete_bundle" ->
         remove_column_from_csv(bundle_prices, fg.b)
    [] fg.cmd \in {"add_to_bundle", "remove_from_bundle"} ->
         update_bundle_prices(prices, bundle_prices, bundles, fg.b,
                              load_bundle(bundles, fg.b))
    [] fg.cmd = "change_vs_currency" /\ fg.target = "prices" ->
         convert_price_file_values(prices, <<TS>> \o ids, fg.w)
    [] fg.cmd = "change_vs_currency" /\ fg.target = "bundle_prices" ->
         convert_price_file_values(bundle_prices,
                                   <<TS>> \o load_bundle_ids(bundles), fg.w)

Target == IF fg.target = "prices" THEN prices ELSE bundle_prices

\* The rewrite going on to os.remove and os.rename although writing tmp.csv
\* raised.
FgGenerateIgnoresError ==
  /\ fg.pc = "gen"
  /\ LET r == Generate
     IN tmp' = IF r.wrote THEN r.file ELSE tmp
  /\ fg' = [fg EXCEPT !.pc = "remove", !.orig = Target]
  /\ UNCHANGED <<ids, bundles, prices, bundle_prices, updater, bg, last,
                 clock, ncmds, calls, sched, ret>>

FgGenerate ==
  /\ fg.pc = "gen"
  /\ LET r == Generate
     IN /\ tmp' = IF r.wrote THEN r.file ELSE tmp
        /\ IF r.ok
           THEN fg' = [fg EXCEPT !.pc = "remove", !.orig = Target]
                /\ UNCHANGED last
           ELSE Return(FALSE)
  /\ UNCHANGED <<ids, bundles, prices, bundle_prices, updater, bg, clock,
                 ncmds, calls, sched, ret>>

\* os.remove(filename)
FgRemove ==
  /\ fg.pc = "remove"
  /\ IF ~Target.exists
     THEN Return(FALSE) /\ UNCHANGED <<prices, bundle_prices>>
     ELSE /\ fg' = [fg EXCEPT !.pc = "rename"]
          /\ UNCHANGED last
          /\ IF fg.target = "prices"
             THEN prices' = NoFile /\ UNCHANGED bundle_prices
             ELSE bundle_prices' = NoFile /\ UNCHANGED prices
  /\ UNCHANGED <<ids, bundles, tmp, updater, bg, clock, ncmds, calls, sched, ret>>

\* os.rename(TMP_FILEPATH, filename), which on POSIX replaces a file an
\* append has created at filename meanwhile; then what follows the rewrite.
FgRename ==
  /\ fg.pc = "rename"
  /\ tmp' = NoFile
  /\ IF fg.target = "prices"
     THEN prices' = tmp /\ UNCHANGED bundle_prices
     ELSE bundle_prices' = tmp /\ UNCHANGED prices
  /\ CASE fg.cmd \in {"add_currency", "remove_currency"} ->
            fg' = [fg EXCEPT !.pc = "set_ids"] /\ UNCHANGED last
       [] fg.cmd \in {"add_to_bundle", "remove_from_bundle"} ->
            fg' = [fg EXCEPT !.pc = "resume_rd"] /\ UNCHANGED last
       [] fg.cmd = "delete_bundle" -> Return(TRUE)
       [] fg.cmd = "change_vs_currency" /\ fg.target = "prices" ->
            fg' = [fg EXCEPT !.pc = "gen", !.target = "bundle_prices"]
            /\ UNCHANGED last
       [] fg.cmd = "change_vs_currency" /\ fg.target = "bundle_prices" ->
            fg' = [fg EXCEPT !.pc = "resume_rd"] /\ UNCHANGED last
  /\ UNCHANGED <<ids, bundles, updater, bg, clock, ncmds, calls, sched, ret>>

\* _update_background_updater leaving the updater's ids as they are.
FgSetIdsSkipped ==
  /\ fg.pc = "set_ids"
  /\ fg' = [fg EXCEPT !.pc = "resume_rd"]
  /\ UNCHANGED <<ids, bundles, prices, bundle_prices, tmp, updater, bg, last,
                 clock, ncmds, calls, sched, ret>>

\* _update_background_updater(output)
FgSetIds ==
  /\ fg.pc = "set_ids"
  /\ updater' = IF updater.status # "NONE"
                THEN [updater EXCEPT !.currency_ids = fg.out] ELSE updater
  /\ fg' = [fg EXCEPT !.pc = "resume_rd"]
  /\ UNCHANGED <<ids, bundles, prices, bundle_prices, tmp, bg, last, clock,
                 ncmds, calls, sched, ret>>

\* _resume_background_updater: resume()'s test of the status.
FgResumeRead ==
  /\ fg.pc = "resume_rd"
  /\ IF updater.status # "NONE" /\ resume_test(updater.status)
     THEN fg' = [fg EXCEPT !.pc = "resume_wr"] /\ UNCHANGED last
     ELSE Return(TRUE)
  /\ UNCHANGED <<ids, bundles, prices, bundle_prices, tmp, updater, bg,
                 clock, ncmds, calls, sched, ret>>

\* resume()'s assignment.
FgResumeWrite ==
  /\ fg.pc = "resume_wr"
  /\ updater' = resume_set(updater)
  /\ Return(TRUE)
  /\ UNCHANGED <<ids, bundles, prices, bundle_prices, tmp, bg, clock, ncmds,
                 calls, sched, ret>>

\* _start_background_updater.  A new thread is started only once the thread
\* of a stopped updater has left run().
StartUpdater ==
  /\ fg.pc = "body" /\ fg.cmd = "start_updater"
  /\ (updater.status # "NONE" /\ stopped(updater))
       => bg.pc \in {"exited", "dead"}
  /\ IF (updater.status # "NONE" /\ ~stopped(updater)) \/ ids = <<>>
     THEN Return(FALSE) /\ UNCHANGED <<updater, bg>>
     ELSE /\ updater' = NewUpdater(ids)
          /\ bg' = [BgNone EXCEPT !.pc = "loop"]
          /\ Return(TRUE)
  /\ UNCHANGED <<ids, bundles, prices, bundle_prices, tmp, clock, ncmds,
                 calls, sched, ret>>

\* _stop_background_updater(command_call=True)
StopUpdater ==
  /\ fg.pc = "body" /\ fg.cmd = "stop_updater"
  /\ IF updater.status # "NONE" /\ ~stopped(updater)
     THEN updater' = stop(updater) /\ Return(TRUE)
     ELSE Return(FALSE) /\ UNCHANGED updater
  /\ UNCHANGED <<ids, bundles, prices, bundle_prices, tmp, bg, clock, ncmds,
                 calls, sched, ret>>

\* ------------------------------------------------ background.py: the thread
\* A ledger append made while a command is in progress is remembered in the
\* command's locals.
NoteAppend == IF fg.pc = "idle" THEN fg ELSE [fg EXCEPT !.bgw = TRUE]

\* self._stop.wait(self._update_time) sleeping the interval out.
wait_sleeps(due, u) == due
\* self._stop.wait(self._update_time) returns once the interval has elapsed
\* or as soon as the event is set.
wait_returns(due, u) == due \/ stopped(u)

\* run(): `while not self.stopped()`, then the thread starts to wait.
BgLoop ==
  /\ bg.pc = "loop"
  /\ BgMayStep
  /\ bg' = IF stopped(updater) THEN [bg EXCEPT !.pc = "exited"]
           ELSE [bg EXCEPT !.pc = "check", !.due = FALSE]
  /\ UNCHANGED <<ids, bundles, prices, bundle_prices, tmp, updater, fg, last,
                 clock, ncmds, calls, sched, ret>>

\* The interval of the wait elapses.
BgTimeout ==
  /\ bg.pc = "check" /\ ~bg.due
  /\ BgMayStep
  /\ bg' = [bg EXCEPT !.due = TRUE]
  /\ UNCHANGED <<ids, bundles, prices, bundle_prices, tmp, updater, fg, last,
                 clock, ncmds, calls, sched, ret>>

\* run() starting an update on wake unless the status is STOPPED.
BgCheckUnlessStopped ==
  /\ bg.pc = "check"
  /\ BgMayStep
  /\ wait_returns(bg.due, updater)
  /\ bg' = [bg EXCEPT !.pc = IF updater.status # "STOPPED" THEN "fetch"
                              ELSE "loop",
                      !.woke = updater.status]
  /\ UNCHANGED <<ids, bundles, prices, bundle_prices, tmp, updater, fg, last,
                 clock, ncmds, calls, sched, ret>>

\* run(): `if self.status == THREAD_STATUS.RUNNING` on wake; woke is the
\* status that the test read.
BgCheck ==
  /\ bg.pc = "check"
  /\ BgMayStep
  /\ wait_returns(bg.due, updater)
  /\ bg' = [bg EXCEPT !.pc = IF updater.status = "RUNNING" THEN "fetch"
                              ELSE "loop",
                      !.woke = updater.status]
  /\ UNCHANGED <<ids, bundles, prices, bundle_prices, tmp, updater, fg, last,
                 clock, ncmds, calls, sched, ret>>

\* _update_prices: a fetch that fails (always so when no id is asked for:
\* the payload is empty), then _increase_error_count.
BgFetchFail ==
  /\ bg.pc = "fetch"
  /\ BgMayStep
  /\ updater' = increase_error_count(updater)
  /\ bg' = [bg EXCEPT !.pc = "loop"]
  /\ UNCHANGED <<ids, bundles, prices, bundle_prices, tmp, fg, last, clock,
                 ncmds, calls, sched, ret>>

\* _update_prices: a fetch that succeeds; the result gets its timestamp.
BgFetchOk ==
  /\ bg.pc = "fetch"
  /\ BgMayStep
  /\ updater.currency_ids # <<>>
  /\ clock < MaxTicks
  /\ clock' = clock + 1
  /\ \E q \in [Range(updater.currency_ids) -> 1..MaxPrice] :
       bg' = [bg EXCEPT
                !.pc = "write_prices",
                !.result =
                  Dict([k \in Range(updater.currency_ids) \cup {TS} |->
                          IF k = TS THEN clock + 1 ELSE q[k]])]
  /\ UNCHANGED <<ids, bundles, prices, bundle_prices, tmp, updater, fg, last,
                 ncmds, calls, sched, ret>>

\* _update_prices: file.write_cryptocur_prices_entry(result, header); an
\* exception ends the thread.
BgWritePrices ==
  /\ bg.pc = "write_prices"
  /\ BgMayStep
  /\ LET r == write_cryptocur_prices_entry(
                prices, ids, bg.result, <<TS>> \o updater.currency_ids)
     IN /\ prices' = r.file
        /\ bg' = [bg EXCEPT !.pc = IF r.ok THEN "write_bundles" ELSE "dead"]
  /\ fg' = NoteAppend
  /\ UNCHANGED <<ids, bundles, bundle_prices, tmp, updater, last, clock,
                 ncmds, calls, sched, ret>>

\* _update_prices: file.write_bundle_prices_entry(result), then the time of
\* the last update; the result is dropped on return.
BgWriteBundles ==
  /\ bg.pc = "write_bundles"
  /\ BgMayStep
  /\ LET r == write_bundle_prices_entry(bundle_prices, bundles, bg.result)
     IN /\ bundle_prices' = r.file
        /\ bg' = IF r.ok THEN [BgNone EXCEPT !.pc = "loop"]
                 ELSE [bg EXCEPT !.pc = "dead"]
        /\ updater' = IF r.ok
                      THEN [updater EXCEPT !.last_update = bg.result.val[TS]]
                      ELSE updater
  /\ fg' = NoteAppend
  /\ UNCHANGED <<ids, bundles, prices, tmp, last, clock, ncmds, calls, sched, ret>>

\* ------------------------------------------------------------ specification
Foreground ==
  \/ \E a \in Assets : add_currency(a)
  \/ \E a \in Assets : remove_currency(a)
  \/ \E b \in BundleIds : create_bundle_cmd(b)
  \/ \E b \in BundleIds : delete_bundle_cmd(b)
  \/ \E b \in BundleIds, a \in Assets, w \in 1..MaxWeight :
       add_to_bundle(b, a, w)
  \/ \E b \in BundleIds, a \in Assets : remove_from_bundle(b, a)
  \/ \E factor \in Factors : change_vs_currency(factor)
  \/ start_background_updater
  \/ stop_background_updater
  \/ FgPauseWrite
  \/ add_new_cryptocurrency
  \/ remove_cryptocurrency
  \/ create_bundle
  \/ delete_bundle
  \/ add_cryptocur_to_bundle
  \/ remove_cryptocur_from_bundle
  \/ FgGenerate
  \/ FgRemove
  \/ FgRename
  \/ FgSetIds
  \/ FgResumeRead
  \/ FgResumeWrite
  \/ StartUpdater
  \/ StopUpdater

Background ==
  \/ BgLoop
  \/ BgTimeout
  \/ BgCheck
  \/ BgFetchFail
  \/ BgFetchOk
  \/ BgWritePrices
  \/ BgWriteBundles

\* The command handler and the update thread.  Under sched = "interleaved"
\* they interleave at every step; under sched = "sequential" a command and an
\* update never overlap (see CmdMayBegin and BgMayStep).
Next == Foreground \/ Background

Spec == Init /\ [][Next]_vars

InitSeq ==
  /\ ids = IDS_DEFAULT_STATE
  /\ bundles = BUNDLES_DEFAULT_STATE
  /\ prices = PRICES_DEFAULT_STATE
  /\ bundle_prices = BUNDLE_PRICES_DEFAULT_STATE
  /\ tmp = NoFile
  /\ updater = NoUpdater
  /\ bg = BgNone
  /\ fg = FgIdle
  /\ last = NoLast
  /\ clock = 0
  /\ ncmds = 0
  /\ calls = <<>>
  /\ sched = "sequential"
  /\ ret = NoRet

SpecSeq == InitSeq /\ [][Next]_vars

\* ------------------------------------------- one caller of the control api
\* A constructed updater whose thread is not scheduled, and one caller of
\* pause(), resume() and stop().
InitCtl ==
  /\ ids = <<"btc">>
  /\ bundles = BUNDLES_DEFAULT_STATE
  /\ prices = CsvFile(<<TS, "btc">>, <<>>)
  /\ bundle_prices = BUNDLE_PRICES_DEFAULT_STATE
  /\ tmp = NoFile
  /\ updater = NewUpdater(ids)
  /\ bg = [BgNone EXCEPT !.pc = "loop"]
  /\ fg = FgIdle
  /\ last = NoLast
  /\ clock = 0
  /\ ncmds = 0
  /\ calls = <<>>
  /\ sched = "sequential"
  /\ ret = NoRet

Call(name, u) ==
  /\ Len(calls) < MaxCalls
  /\ calls' = Append(calls, name)
  /\ updater' = u
  /\ UNCHANGED <<ids, bundles, prices, bundle_prices, tmp, bg, fg, last,
                 clock, ncmds, sched, ret>>

CallPause == Call("pause", pause(updater))
CallResume == Call("resume", resume(updater))
CallStop == Call("stop", stop(updater))

NextCtl == CallPause \/ CallResume \/ CallStop

SpecCtl == InitCtl /\ [][NextCtl]_vars

\* ------------------------------------------------------------------ claims
\* No command is in progress / no update is in progress.
FgQuiet == fg.pc = "idle"
BgQuiet == ~InUpdate
\* A step in which command cmd returns without an exception.
Completes(cmds) ==
  fg.pc # "idle" /\ fg'.pc = "idle" /\ last'.ok /\ last'.cmd \in cmds
\* A step in which a command returns with an exception.
Fails == fg.pc # "idle" /\ fg'.pc = "idle" /\ ~last'.ok

RowsMatchHeader(f) ==
  f.exists /\ \A i \in DOMAIN f.rows : Len(f.rows[i]) = Len(f.header)

\* C1: between commands, every row of prices.csv and of bundle_prices.csv
\* has exactly one field per column of its file's header.
C1_RowsMatchHeader ==
  FgQuiet => RowsMatchHeader(prices) /\ RowsMatchHeader(bundle_prices)

RewritingCmds ==
  {"add_currency", "remove_currency", "add_to_bundle", "remove_from_bundle",
   "delete_bundle", "change_vs_currency"}

\* C2: the update thread is never between its fetch and the end of its two
\* appends while a command is between the start of its rewrite and the
\* rename that installs the new ledger.
C2_NoInterleaving ==
  ~(/\ bg.pc \in {"write_prices", "write_bundles"}
    /\ fg.cmd \in RewritingCmds
    /\ fg.pc \in {"remove", "rename"})

\* C3: while a rewrite is under way the ledger path holds the complete
\* original content or the complete new content, and is never missing.
C3_AtomicRewrite ==
  fg.pc \in {"remove", "rename"} =>
    Target.exists /\ (Target = fg.orig \/ Target = tmp)

\* C4: a command that ends with an error leaves ids.json, bundles.json,
\* prices.csv and bundle_prices.csv as they were when it was entered (the
\* update thread's own appends during the command aside).
C4_FailClosed ==
  [][(Fails /\ ~fg.bgw) =>
       /\ ids' = fg.pre.ids
       /\ bundles' = fg.pre.bundles
       /\ prices' = fg.pre.prices
       /\ bundle_prices' = fg.pre.bundle_prices]_vars

\* C5: after every completed create_bundle, delete_bundle, add_to_bundle or
\* remove_from_bundle, and after every append to bundle_prices.csv, the
\* header of bundle_prices.csv is "timestamp" followed by the bundle ids of
\* bundles.json in order.
C5_BundleHeader ==
  [][(\/ Completes({"create_bundle", "delete_bundle", "add_to_bundle",
                    "remove_from_bundle"})
      \/ (bg.pc = "write_bundles" /\ bg'.pc = "loop"))
     => bundle_prices'.header = <<TS>> \o load_bundle_ids(bundles')]_vars

\* C6: after every completed add_currency or remove_currency, the header
\* of prices.csv is "timestamp" followed by the ids of ids.json in order.
C6_PriceHeader ==
  (FgQuiet /\ last.ok /\ last.cmd \in {"add_currency", "remove_currency"})
    => prices.exists /\ prices.header = <<TS>> \o ids
\* A column was removed from a ledger that holds rows and keeps a column.
C6_Witness ==
  /\ FgQuiet /\ last.ok /\ last.cmd = "remove_currency"
  /\ ids # <<>> /\ prices.rows # <<>>

\* A step in which a fetch fails / in which start_updater makes a new object.
FailedFetch == bg.pc = "fetch" /\ bg'.pc = "loop"
NewObject == fg.cmd = "start_updater" /\ updater' # updater

\* C7: the updater stops itself at its 4th failed fetch and not before
\* (the count is never reset by a successful update), and from then on its
\* thread makes no fetch and no append: it can only leave run().
C7_StopAfterFour ==
  [][/\ FailedFetch =>
          /\ updater'.error_count = updater.error_count + 1
          /\ IF updater'.error_count = 4
             THEN updater'.status = "STOPPED" /\ updater'.stop
             ELSE /\ updater'.status = updater.status
                  /\ updater'.stop = updater.stop
     /\ (~FailedFetch /\ ~NewObject) =>
          updater'.error_count = updater.error_count
     /\ updater'.error_count <= 4
     /\ (updater.error_count = 4 /\ ~NewObject) =>
          /\ bg' = bg \/ bg'.pc = "exited"
          /\ prices' = prices \/ fg.pc # "idle"
          /\ bundle_prices' = bundle_prices \/ fg.pc # "idle"]_vars
\* Four failures after at least one successful update; the thread has left.
C7_Witness ==
  /\ updater.error_count = 4 /\ updater.last_update > 0
  /\ updater.status = "STOPPED" /\ bg.pc = "exited"

\* C8: once the status of an updater is STOPPED it stays STOPPED.
C8_StoppedTerminal ==
  [][(updater.status = "STOPPED" /\ ~NewObject) =>
       updater'.status = "STOPPED"]_vars

\* The transition table of the control surface.
Table(st, call) ==
  CASE call = "pause" -> IF st = "RUNNING" THEN "PAUSED" ELSE st
    [] call = "resume" -> IF st = "PAUSED" THEN "RUNNING" ELSE st
    [] call = "stop" -> "STOPPED"
RECURSIVE Replay(_)
Replay(cs) ==
  IF cs = <<>> THEN "RUNNING"
  ELSE Table(Replay(SubSeq(cs, 1, Len(cs) - 1)), cs[Len(cs)])

\* C9: for one caller, the status after any sequence of pause(), resume()
\* and stop() calls is what the transition table gives from RUNNING.
C9_TransitionTable == updater.status = Replay(calls)
\* A stop() followed later by a pause() and a resume().
C9_Witness ==
  \E i, j, k \in DOMAIN calls :
    /\ i < j /\ j < k
    /\ calls[i] = "stop" /\ calls[j] = "pause" /\ calls[k] = "resume"
    /\ updater.status = "STOPPED"

\* C10: between commands and updates, for every bundle with a column in
\* bundle_prices.csv and every row i of it, the bundle's value in row i is
\* the sum over the bundle's contents of amount * price in row i of
\* prices.csv.
C10_BundleValues ==
  (FgQuiet /\ BgQuiet /\ prices.exists /\ bundle_prices.exists) =>
    \A k \in DOMAIN bundles :
      bundles[k].id \in Range(bundle_prices.header) =>
        \A i \in DOMAIN bundle_prices.rows :
          /\ i <= Len(prices.rows)
          /\ LET d == DictReader(bundle_prices.header, bundle_prices.rows[i])
                 p == DictReader(prices.header, prices.rows[i])
             IN /\ PriceSumOk(p, bundles[k].cur)
                /\ d.val[bundles[k].id] = PriceSum(p, bundles[k].cur)

\* What C11 requires of the two ledgers once the command on bundle fg.b has
\* returned: row for row, and the timestamps of the rows it created.
RecomputedHistory ==
  /\ prices'.exists /\ bundle_prices'.exists
  /\ fg.b \in Range(bundle_prices'.header)
  /\ Len(bundle_prices'.rows) = Len(prices'.rows)
  /\ \A i \in DOMAIN bundle_prices'.rows :
       LET d == DictReader(bundle_prices'.header, bundle_prices'.rows[i])
           p == DictReader(prices'.header, prices'.rows[i])
           members == load_bundle(bundles', fg.b)
       IN /\ PriceSumOk(p, members)
          /\ d.val[fg.b] = PriceSum(p, members)
          /\ i > Len(fg.orig.rows) => d.val[TS] = p.val[TS]

\* C11: after add_to_bundle or remove_from_bundle has succeeded (and the
\* thread is not in the middle of an update), bundle_prices.csv has one row
\* for every row of prices.csv (a row it lacked is created with the
\* timestamp of the row of prices.csv at the same position), and in every
\* row the value of the bundle is the sum of amount * price over the
\* bundle's new contents.
C11_RecomputedHistory ==
  [][(Completes({"add_to_bundle", "remove_from_bundle"}) /\ BgQuiet') =>
       RecomputedHistory]_vars

\* The command handler is about to run add_cryptocur_to_bundle for an id the
\* bundle already contains.
AddsMember ==
  /\ fg.pc = "body" /\ fg.cmd = "add_to_bundle"
  /\ HasBundle(bundles, fg.b)
  /\ fg.a \in DOMAIN load_bundle(bundles, fg.b)

\* C12: add_to_bundle of an id that the bundle already contains ends with
\* an error, and bundles.json keeps the amount it had.
C12_DuplicateRejected ==
  [][(AddsMember /\ fg'.pc # fg.pc) =>
       (Fails /\ bundles' = bundles)]_vars

\* The command handler is about to run remove_cryptocurrency for an id that
\* some bundle contains.
RemovesReferenced ==
  /\ fg.pc = "body" /\ fg.cmd = "remove_currency"
  /\ \E k \in DOMAIN bundles : fg.a \in DOMAIN bundles[k].cur

\* C13: remove_currency of an id that some bundle contains ends with an
\* error, and ids.json and prices.csv (header and rows) are as they were
\* when the command was entered (prices.csv apart from rows the update
\* thread has appended meanwhile).
C13_ReferencedKept ==
  [][(RemovesReferenced /\ fg'.pc # fg.pc) =>
       /\ Fails
       /\ ids' = fg.pre.ids
       /\ prices' = prices
       /\ ~fg.bgw => prices' = fg.pre.prices]_vars
\* remove_currency of an id in a bundle has just failed.
C13_Witness ==
  /\ FgQuiet /\ last.cmd = "remove_currency" /\ ~last.ok
  /\ \E k \in DOMAIN bundles : last.a \in DOMAIN bundles[k].cur
  /\ last.a \in Range(ids) /\ last.a \in Range(prices.header)

\* A command is between the start of its rewrite and the rename.
Rewriting ==
  fg.cmd \in RewritingCmds /\ fg.pc \in {"gen", "remove", "rename"}

\* C14: while add_currency, remove_currency, add_to_bundle,
\* remove_from_bundle, delete_bundle (of a bundle with contents) or
\* change_vs_currency is rewriting a ledger, the status of an existing
\* updater is not RUNNING: the command has called pause() before.
C14_PausedWhileRewriting == Rewriting => updater.status # "RUNNING"

\* The thread leaves _update_prices without having appended both rows.
NoSample ==
  /\ InUpdate /\ ~InUpdate'
  /\ ~(bg.pc = "write_bundles" /\ bg'.pc = "loop")

\* C15: whenever the thread has left run() the status of its updater is
\* STOPPED, and every update that ends without its sample appended has
\* added one to the error count.
C15_EndsOnlyStopped ==
  [][/\ bg'.pc \in {"exited", "dead"} => updater'.status = "STOPPED"
     /\ NoSample => updater'.error_count = updater.error_count + 1]_vars

\* C16: the thread starts an update only from its status test on wake and
\* only if that test read RUNNING; a wake that reads PAUSED or STOPPED goes
\* back to the loop with no timestamp taken and no file changed, and rows
\* are appended only by an update so started.
C16_UpdateOnlyIfRunning ==
  [][/\ (bg.pc = "check" /\ bg'.pc # "check") =>
          IF updater.status = "RUNNING" THEN bg'.pc = "fetch"
          ELSE /\ bg'.pc = "loop" /\ clock' = clock
               /\ prices' = prices /\ bundle_prices' = bundle_prices
     /\ (bg'.pc = "fetch" /\ bg.pc # "fetch") =>
          (bg.pc = "check" /\ updater.status = "RUNNING")
     /\ (bg'.pc = "write_prices" /\ bg.pc # "write_prices") =>
          (bg.pc = "fetch" /\ bg.woke = "RUNNING")
     /\ (bg'.pc = "write_bundles" /\ bg.pc # "write_bundles") =>
          (bg.pc = "write_prices" /\ bg.woke = "RUNNING")]_vars
\* The thread woke while PAUSED, after an earlier update, and is back in
\* its loop.
C16_Witness ==
  /\ bg.pc = "loop" /\ bg.woke = "PAUSED"
  /\ updater.status = "PAUSED" /\ updater.last_update > 0

\* ------------------------------------------------- the thread under fairness
\* The state after `add_currency btc` and `start_updater`, with room for two
\* more commands.
InitLive ==
  /\ ids = <<"btc">>
  /\ bundles = BUNDLES_DEFAULT_STATE
  /\ prices = CsvFile(<<TS, "btc">>, <<>>)
  /\ bundle_prices = BUNDLE_PRICES_DEFAULT_STATE
  /\ tmp = NoFile
  /\ updater = NewUpdater(ids)
  /\ bg = [BgNone EXCEPT !.pc = "loop"]
  /\ fg = FgIdle
  /\ last = [NoLast EXCEPT !.cmd = "start_updater"]
  /\ clock = 0
  /\ ncmds = MaxCmds - 2
  /\ calls = <<>>
  /\ sched = "interleaved"
  /\ ret = NoRet

\* The thread keeps being scheduled and a fetch in progress returns; nothing
\* is assumed about the interval of the wait elapsing or about the user.
ThreadRuns ==
  /\ WF_vars(BgLoop)
  /\ WF_vars(BgCheck)
  /\ WF_vars(BgFetchFail \/ BgFetchOk)
  /\ WF_vars(BgWritePrices)
  /\ WF_vars(BgWriteBundles)

SpecLive == InitLive /\ [][Next]_vars /\ ThreadRuns

\* C17: once stop() has been called the thread leaves run(), without the
\* interval of its wait having to elapse, and no update is started after
\* the call.
C17_StopEndsThread ==
  /\ (updater.stop ~> bg.pc \in {"exited", "dead"})
  /\ [][(updater.stop /\ ~NewObject) =>
          ~(bg.pc # "fetch" /\ bg'.pc = "fetch")]_vars
\* stop() was called while the thread was waiting with the interval not yet
\* elapsed, and the thread has left run().
C17_Witness ==
  /\ updater.stop /\ bg.pc = "exited"
  /\ bg.woke = "STOPPED" /\ ~bg.due

\* File g is file f with one more row, whose timestamp is ts.
AppendedOne(f, g, ts) ==
  /\ g.exists
  /\ Len(g.rows) = Len(f.rows) + 1
  /\ SubSeq(g.rows, 1, Len(f.rows)) = f.rows
  /\ g.rows[Len(g.rows)][1] = ts

\* C18: after a successful fetch the update appends one row to prices.csv,
\* then one row with the same timestamp to bundle_prices.csv, and only then
\* sets the time of the last update; an update whose fetch failed appends
\* nothing and leaves the time of the last update as it was.
C18_AppendOrder ==
  [][/\ (bg.pc = "write_prices" /\ bg'.pc # "write_prices") =>
          /\ AppendedOne(prices, prices', bg.result.val[TS])
          /\ bundle_prices' = bundle_prices
          /\ updater'.last_update = updater.last_update
          /\ bg'.pc = "write_bundles" /\ bg'.result = bg.result
     /\ (bg.pc = "write_bundles" /\ bg'.pc # "write_bundles") =>
          /\ AppendedOne(bundle_prices, bundle_prices', bg.result.val[TS])
          /\ prices' = prices
          /\ updater'.last_update = bg.result.val[TS]
          /\ bg'.pc = "loop"
     /\ (updater'.last_update # updater.last_update /\ ~NewObject) =>
          bg.pc = "write_bundles"
     /\ FailedFetch =>
          /\ prices' = prices /\ bundle_prices' = bundle_prices
          /\ updater'.last_update = updater.last_update]_vars

\* Every column of bundle_prices.csv but the timestamp belongs to a bundle
\* of bundles.json that has contents: no bundle without contents and no
\* deleted bundle has a column.
ColumnsHaveContents(bs, bp) ==
  bp.exists =>
    \A c \in Range(bp.header) \ {TS} :
      \E k \in DOMAIN bs : bs[k].id = c /\ DOMAIN bs[k].cur # {}

\* C19: create_bundle, add_to_bundle, remove_from_bundle and delete_bundle
\* keep it true that no bundle without contents has a column in
\* bundle_prices.csv, so that delete_bundle leaves no column of the
\* deleted bundle in its header.
C19_EmptyBundleNoColumn ==
  [][(/\ Completes({"create_bundle", "add_to_bundle", "remove_from_bundle",
                    "delete_bundle"})
      /\ ColumnsHaveContents(fg.pre.bundles, fg.pre.bundle_prices)) =>
       ColumnsHaveContents(bundles', bundle_prices')]_vars

\* File g holds whole rows only, one for every row of f at least.
WholeCopy(f, g) ==
  g.exists /\ RowsMatchHeader(g) /\ Len(g.rows) >= Len(f.rows)

\* How a step of a command may change ledger f: not at all, by os.remove,
\* or by os.rename of a tmp.csv that was written to its end.
LedgerStep(f, g, name) ==
  \/ g = f
  \/ fg.pc = "remove" /\ fg.target = name /\ g = NoFile
  \/ fg.pc = "rename" /\ fg.target = name /\ g = tmp /\ WholeCopy(fg.orig, tmp)

\* C20: a rewrite that raises while it writes tmp.csv leaves both ledgers
\* as they are, and no step of a command puts anything at the path of a
\* ledger but a tmp.csv that was written to its end: whatever step a
\* rewrite is cut off at, the ledger is not a partly written file.
C20_NoPartialLedger ==
  [][/\ (fg.pc = "gen" /\ Fails) =>
          (prices' = prices /\ bundle_prices' = bundle_prices)
     /\ fg'.pc # fg.pc =>
          /\ LedgerStep(prices, prices', "prices")
          /\ LedgerStep(bundle_prices, bundle_prices', "bundle_prices")]_vars
\* add_to_bundle has raised while writing tmp.csv: tmp.csv holds fewer rows
\* than bundle_prices.csv, which is still there.
C20_Witness ==
  /\ FgQuiet /\ ~last.ok /\ last.cmd = "add_to_bundle"
  /\ tmp.exists /\ bundle_prices.exists
  /\ Len(tmp.rows) < Len(bundle_prices.rows)

\* The timestamps of the rows of a ledger, in order (the timestamp is the
\* first field of every line the program writes); none for a missing file.
Timestamps(f) ==
  [i \in DOMAIN f.rows |-> IF f.rows[i] = <<>> THEN Empty ELSE f.rows[i][1]]
IsPrefix(s, t) == Len(s) <= Len(t) /\ SubSeq(t, 1, Len(s)) = s
\* What a step leaves at the path of ledger f: the os.remove of a rewrite
\* counts as the replacement by tmp.csv that the os.rename completes.
LeftBy(f, g, name) ==
  IF fg.pc = "remove" /\ fg.target = name /\ f.exists /\ ~g.exists
  THEN tmp ELSE g

\* C21: no step of a command or of the update thread removes or reorders a
\* row of prices.csv or bundle_prices.csv: the timestamps of the rows a
\* ledger held before the step are, in the same order, the timestamps of
\* its first rows after it, so that its number of rows never decreases.
C21_AppendOnly ==
  [][/\ IsPrefix(Timestamps(prices),
                 Timestamps(LeftBy(prices, prices', "prices")))
     /\ IsPrefix(Timestamps(bundle_prices),
                 Timestamps(LeftBy(bundle_prices, bundle_prices',
                                   "bundle_prices")))]_vars

\* C22: every id in the contents of a bundle of bundles.json is an id of
\* ids.json.
C22_MembersTracked ==
  \A k \in DOMAIN bundles :
    \A c \in DOMAIN bundles[k].cur : c \in Range(ids)
\* A bundle has contents, and add_to_bundle of an id that ids.json lacks has
\* just failed on an existing bundle.
C22_Witness ==
  /\ FgQuiet /\ last.cmd = "add_to_bundle" /\ ~last.ok
  /\ last.a \notin Range(ids) /\ HasBundle(bundles, last.b)
  /\ \E k \in DOMAIN bundles : DOMAIN bundles[k].cur # {}

\* The step in which remove_currency of an id returns, the command before
\* it having been a successful add_currency of that id.
AddThenRemove ==
  /\ fg.pc # "idle" /\ fg'.pc = "idle" /\ fg.cmd = "remove_currency"
  /\ last.cmd = "add_currency" /\ last.ok /\ last.a = fg.a

\* C23: add_currency of a new id directly followed by remove_currency of
\* it succeeds and leaves ids.json (ids and order) and the header of
\* prices.csv as they were before the add, and every row prices.csv held
\* before the add with every field as it was.
C23_AddRemoveRoundTrip ==
  [][AddThenRemove =>
       /\ last'.ok
       /\ ids' = last.pre.ids
       /\ prices'.exists
       /\ prices'.header = last.pre.prices.header
       /\ IsPrefix(last.pre.prices.rows, prices'.rows)]_vars
\* The id was added to a ledger that held a row and another column, and has
\* been removed again.
C23_Witness ==
  /\ FgQuiet /\ last.cmd = "remove_currency" /\ last.ok
  /\ last.pre.ids = ids \o <<last.a>>
  /\ ids # <<>> /\ last.pre.prices.rows # <<>>
  /\ last.pre.prices.rows[1][Len(last.pre.prices.rows[1])] = 0

\* The thread runs write_cryptocur_prices_entry(result, header); the header in
\* use is "timestamp" followed by the ids of the updater.
AppendsSample == bg.pc = "write_prices" /\ bg'.pc # "write_prices"
SampleLacksPrice ==
  \E c \in Range(updater.currency_ids) : c \notin DOMAIN bg.result.val

\* C24: write_cryptocur_prices_entry raises, with prices.csv left as it
\* is, when the sample lacks a price for a column of the header in use;
\* otherwise it returns and prices.csv has its header and rows as before and
\* one more row at its end.
C24_PriceAppend ==
  [][AppendsSample =>
       IF SampleLacksPrice
       THEN bg'.pc = "dead" /\ prices' = prices
       ELSE /\ bg'.pc = "write_bundles"
            /\ prices'.header = prices.header
            /\ Len(prices'.rows) = Len(prices.rows) + 1
            /\ SubSeq(prices'.rows, 1, Len(prices.rows)) = prices.rows]_vars

\* The thread runs write_bundle_prices_entry(result) on a sample that has a
\* price for everything the bundles contain.
AppendsBundleSample ==
  /\ bg.pc = "write_bundles" /\ bg'.pc # "write_bundles"
  /\ \A k \in DOMAIN bundles :
       DOMAIN bundles[k].cur \subseteq DOMAIN bg.result.val

\* C25: write_bundle_prices_entry appends one row to bundle_prices.csv and
\* leaves its other rows as they are; the row holds the timestamp of the
\* price sample and then, for each bundle of bundles.json in order, the sum
\* of amount * price of the sample over the bundle's contents.
C25_BundleAppend ==
  [][AppendsBundleSample =>
       /\ bg'.pc = "loop"
       /\ Len(bundle_prices'.rows) = Len(bundle_prices.rows) + 1
       /\ SubSeq(bundle_prices'.rows, 1, Len(bundle_prices.rows))
            = bundle_prices.rows
       /\ LET row == bundle_prices'.rows[Len(bundle_prices'.rows)]
          IN /\ Len(row) = Len(bundles) + 1
             /\ row[1] = bg.result.val[TS]
             /\ \A k \in DOMAIN bundles :
                  row[k + 1] =
                    SumOver(DOMAIN bundles[k].cur,
                            [c \in DOMAIN bundles[k].cur |->
                               bundles[k].cur[c] * bg.result.val[c]])]_vars
\* The last update appended a row in which a bundle is worth more than any
\* single price.
C25_Witness ==
  /\ bg.pc = "loop" /\ updater.last_update > 0
  /\ bundle_prices.exists /\ bundle_prices.rows # <<>> /\ bundles # <<>>
  /\ LET row == bundle_prices.rows[Len(bundle_prices.rows)]
     IN /\ Len(row) = Len(bundles) + 1
        /\ row[1] = updater.last_update
        /\ \E k \in DOMAIN bundles : row[k + 1] > MaxPrice

\* ------------------------------------------------- two bundles and an updater
\* The state after `add_currency btc`, `create_bundle b1`, `create_bundle b2`,
\* `add_to_bundle b1 btc 1` and `start_updater`, with room for three more
\* commands; commands and updates do not overlap.
InitBundles ==
  /\ ids = <<"btc">>
  /\ bundles = <<[id |-> "b1", cur |-> [c \in {"btc"} |-> 1]],
                 [id |-> "b2", cur |-> <<>>]>>
  /\ prices = CsvFile(<<TS, "btc">>, <<>>)
  /\ bundle_prices = CsvFile(<<TS, "b1", "b2">>, <<>>)
  /\ tmp = NoFile
  /\ updater = NewUpdater(ids)
  /\ bg = [BgNone EXCEPT !.pc = "loop"]
  /\ fg = FgIdle
  /\ last = [NoLast EXCEPT !.cmd = "start_updater"]
  /\ clock = 0
  /\ ncmds = MaxSeqCmds - 3
  /\ calls = <<>>
  /\ sched = "sequential"
  /\ ret = NoRet

SpecBundles == InitBundles /\ [][Next]_vars

\* The values of column c of file f, row by row, as csv.DictReader reads
\* them; a field that a short line lacks counts as an empty field.
ColumnOf(f, c) ==
  [i \in DOMAIN f.rows |->
     LET v == DictReader(f.header, f.rows[i]).val[c]
     IN IF v = NoneVal THEN Empty ELSE v]

\* C26: a successful add_to_bundle or remove_from_bundle on bundle b (no
\* row appended by the thread meanwhile) leaves ids.json and prices.csv as
\* they were at its entry, and in bundle_prices.csv it leaves every row's
\* timestamp and every value of the column of every other bundle of
\* bundles.json as it was.
C26_OtherColumnsKept ==
  [][(Completes({"add_to_bundle", "remove_from_bundle"}) /\ ~fg.bgw) =>
       /\ ids' = fg.pre.ids
       /\ prices' = fg.pre.prices
       /\ bundle_prices'.exists
       /\ IsPrefix(Timestamps(fg.pre.bundle_prices),
                   Timestamps(bundle_prices'))
       /\ \A c \in (Range(fg.pre.bundle_prices.header)
                     \cap Range(load_bundle_ids(fg.pre.bundles))) \ {fg.b} :
            /\ c \in Range(bundle_prices'.header)
            /\ IsPrefix(ColumnOf(fg.pre.bundle_prices, c),
                        ColumnOf(bundle_prices', c))]_vars

\* add_to_bundle or remove_from_bundle has just succeeded on a ledger that
\* had a row in which another bundle of bundles.json had a value.
C26_Witness ==
  /\ FgQuiet /\ last.ok
  /\ last.cmd \in {"add_to_bundle", "remove_from_bundle"}
  /\ last.pre.bundle_prices.rows # <<>>
  /\ \E c \in (Range(last.pre.bundle_prices.header)
                 \cap Range(load_bundle_ids(last.pre.bundles))) \ {last.b} :
       ColumnOf(last.pre.bundle_prices, c)[1] > 0

\* C27: a successful add_currency of id a (no row appended by the thread
\* meanwhile) returns the ids it found followed by a, and leaves a
\* prices.csv whose header is the header it found followed by a and whose
\* rows are, one for one, the rows it found followed by the value 0.
C27_AddColumn ==
  [][(Completes({"add_currency"}) /\ ~fg.bgw) =>
       /\ fg.out = fg.pre.ids \o <<fg.a>>
       /\ ids' = fg.pre.ids \o <<fg.a>>
       /\ prices'.exists
       /\ prices'.header = fg.pre.prices.header \o <<fg.a>>
       /\ Len(prices'.rows) = Len(fg.pre.prices.rows)
       /\ \A i \in DOMAIN prices'.rows :
            prices'.rows[i] = fg.pre.prices.rows[i] \o <<0>>]_vars
\* add_currency has just added a second column to a ledger with a row.
C27_Witness ==
  /\ FgQuiet /\ last.cmd = "add_currency" /\ last.ok
  /\ Len(ids) = 2 /\ ids[2] = last.a
  /\ prices.exists /\ prices.header = <<TS>> \o ids
  /\ prices.rows # <<>> /\ Len(prices.rows[1]) = 3
  /\ prices.rows[1][3] = 0 /\ prices.rows[1][2] > 0

\* Sequence s without its k-th element.
Without(s, k) ==
  [i \in 1..(Len(s) - 1) |-> IF i < k THEN s[i] ELSE s[i + 1]]

\* C28: a successful remove_currency of id a (no row appended by the thread
\* meanwhile) found a as exactly one column of prices.csv and leaves the
\* header without that column and every row without a value for it,
\* everything else in place: the other columns in their order, the
\* timestamp and the other values of every row, and the number of rows;
\* bundles.json and bundle_prices.csv are as they were.
C28_RemoveColumn ==
  [][(Completes({"remove_currency"}) /\ ~fg.bgw) =>
       /\ \E k \in DOMAIN fg.pre.prices.header :
            /\ \A j \in DOMAIN fg.pre.prices.header :
                 fg.pre.prices.header[j] = fg.a <=> j = k
            /\ prices'.exists
            /\ prices'.header = Without(fg.pre.prices.header, k)
            /\ Len(prices'.rows) = Len(fg.pre.prices.rows)
            /\ RowsMatchHeader(prices')
            /\ \A c \in Range(prices'.header) :
                 ColumnOf(prices', c) = ColumnOf(fg.pre.prices, c)
       /\ fg.a \notin Range(ids')
       /\ bundles' = fg.pre.bundles
       /\ bundle_prices' = fg.pre.bundle_prices]_vars
\* remove_currency has just removed the first of two price columns from a
\* ledger with a row that held a price in both.
C28_Witness ==
  /\ FgQuiet /\ last.cmd = "remove_currency" /\ last.ok
  /\ Len(last.pre.prices.header) = 3 /\ last.pre.prices.header[2] = last.a
  /\ last.pre.prices.rows # <<>>
  /\ Len(last.pre.prices.rows[1]) = 3
  /\ last.pre.prices.rows[1][2] > 0 /\ last.pre.prices.rows[1][3] > 0
  /\ prices.exists /\ prices.rows # <<>>

\* The command handler is about to run add_cryptocur_to_bundle for a bundle
\* that bundles.json lacks or an id that ids.json lacks.
AddsToMissing ==
  /\ fg.pc = "body" /\ fg.cmd = "add_to_bundle"
  /\ \/ ~\E k \in DOMAIN bundles : bundles[k].id = fg.b
     \/ ~\E j \in DOMAIN ids : ids[j] = fg.a
\* The command handler is about to run remove_cryptocur_from_bundle for a
\* bundle that bundles.json lacks or an id that the bundle does not contain.
RemovesMissing ==
  /\ fg.pc = "body" /\ fg.cmd = "remove_from_bundle"
  /\ ~\E k \in DOMAIN bundles :
        bundles[k].id = fg.b /\ fg.a \in DOMAIN bundles[k].cur

\* C29: add_to_bundle with an unknown bundle or an unknown id, and
\* remove_from_bundle with an unknown bundle or an id the bundle does not
\* contain, end with an error, with bundles.json and bundle_prices.csv as
\* they were when the command was entered (bundle_prices.csv apart from
\* rows the update thread has appended meanwhile).
C29_BundleEditRejected ==
  [][((AddsToMissing \/ RemovesMissing) /\ fg'.pc # fg.pc) =>
       /\ Fails
       /\ bundles' = fg.pre.bundles
       /\ bundle_prices' = bundle_prices
       /\ ~fg.bgw => bundle_prices' = fg.pre.bundle_prices]_vars
\* remove_from_bundle of an id has just failed on a bundle that contains
\* another id.
C29_Witness ==
  /\ FgQuiet /\ last.cmd = "remove_from_bundle" /\ ~last.ok
  /\ \E k \in DOMAIN bundles :
       /\ bundles[k].id = last.b
       /\ last.a \notin DOMAIN bundles[k].cur
       /\ DOMAIN bundles[k].cur # {}

\* No element occurs twice in sequence s.
NoDuplicates(s) == \A i, j \in DOMAIN s : s[i] = s[j] => i = j

\* The command handler is about to run add_new_cryptocurrency for an id of
\* ids.json, remove_cryptocurrency for an id ids.json lacks, create_bundle
\* for a bundle of bundles.json or delete_bundle for a bundle it lacks.
RegistryMisuse ==
  /\ fg.pc = "body"
  /\ LET tracked == \E j \in DOMAIN ids : ids[j] = fg.a
         bundle == \E k \in DOMAIN bundles : bundles[k].id = fg.b
     IN \/ fg.cmd = "add_currency" /\ tracked
        \/ fg.cmd = "remove_currency" /\ ~tracked
        \/ fg.cmd = "create_bundle" /\ bundle
        \/ fg.cmd = "delete_bundle" /\ ~bundle

\* C30: add_currency of an id already in ids.json, remove_currency of an
\* id not in it, create_bundle of a bundle already in bundles.json and
\* delete_bundle of a bundle not in it end with an error, with ids.json,
\* bundles.json, prices.csv and bundle_prices.csv as they were when the
\* command was entered (the ledgers apart from rows the update thread has
\* appended meanwhile); and no id occurs twice in ids.json, no bundle id
\* twice in bundles.json.
C30_RegistryMisuseRejected ==
  [][/\ (RegistryMisuse /\ fg'.pc # fg.pc) =>
          /\ Fails
          /\ ids' = fg.pre.ids /\ bundles' = fg.pre.bundles
          /\ prices' = prices /\ bundle_prices' = bundle_prices
          /\ ~fg.bgw => /\ prices' = fg.pre.prices
                        /\ bundle_prices' = fg.pre.bundle_prices
     /\ NoDuplicates(ids') /\ NoDuplicates(load_bundle_ids(bundles'))]_vars
\* add_currency of an id that ids.json holds has just failed, prices.csv
\* holding a row.
C30_Witness ==
  /\ FgQuiet /\ last.cmd = "add_currency" /\ ~last.ok
  /\ last.a \in Range(ids) /\ last.a \in Range(prices.header)
  /\ prices.rows # <<>>

\* The command handler is about to construct a BackgroundUpdateThread: it
\* holds no updater, or one whose stop event is set.
Constructs ==
  /\ fg.pc = "body" /\ fg.cmd = "start_updater" /\ fg'.pc # fg.pc
  /\ updater.status = "NONE" \/ updater.stop

\* C31: constructing an updater while ids.json is empty raises, and the
\* command handler is then left with no updater whose status is RUNNING;
\* constructing one while ids.json holds ids gives an updater with status
\* RUNNING, error count 0 and the ids of ids.json.
C31_Construction ==
  [][Constructs =>
       IF ids = <<>>
       THEN Fails /\ updater'.status # "RUNNING"
       ELSE /\ last'.ok
            /\ updater'.status = "RUNNING" /\ ~updater'.stop
            /\ updater'.error_count = 0
            /\ updater'.currency_ids = ids]_vars

IdCmds == {"add_currency", "remove_currency"}

\* C32: when add_currency or remove_currency succeeds while the command
\* handler holds an updater, the ids of that updater are the ids of
\* ids.json in order; the command changes nothing else of the updater but
\* its status (the object is not replaced); and a row that an update appends
\* to prices.csv after such a command has one field for every column of the
\* header of prices.csv, which is "timestamp" followed by those ids.
C32_UpdaterFollowsIds ==
  [][/\ (Completes(IdCmds) /\ updater.status # "NONE") =>
          updater'.currency_ids = ids'
     /\ (fg.cmd \in IdCmds /\ fg'.pc # fg.pc) =>
          /\ updater'.stop = updater.stop
          /\ updater'.error_count = updater.error_count
          /\ updater'.last_update = updater.last_update
          /\ updater'.status = "NONE" <=> updater.status = "NONE"
     /\ (/\ bg.pc = "write_prices" /\ bg'.pc = "write_bundles"
         /\ FgQuiet /\ last.ok /\ last.cmd \in IdCmds) =>
          /\ prices'.header = <<TS>> \o ids
          /\ Len(prices'.rows[Len(prices'.rows)]) = Len(prices'.header)]_vars
\* After add_currency of a second id on a running updater, an update has
\* appended a row with a price for it.
C32_Witness ==
  /\ FgQuiet /\ last.cmd = "add_currency" /\ last.ok
  /\ updater.status = "RUNNING" /\ updater.last_update > 0
  /\ Len(ids) = 2 /\ ids[2] = last.a /\ updater.currency_ids = ids
  /\ prices.exists /\ prices.rows # <<>>
  /\ LET row == prices.rows[Len(prices.rows)]
     IN Len(row) = 3 /\ row[3] > 0 /\ row[1] = updater.last_update


\* Ledger g is ledger f with every value other than the timestamp multiplied
\* by factor: same header, same number of rows, same timestamps.
Converted(f, g, factor) ==
  /\ g.exists /\ g.header = f.header /\ Len(g.rows) = Len(f.rows)
  /\ Timestamps(g) = Timestamps(f)
  /\ \A i \in DOMAIN f.rows :
       /\ Len(g.rows[i]) = Len(f.rows[i])
       /\ \A j \in 2..Len(f.rows[i]) :
            FloatOk(f.rows[i][j]) /\ g.rows[i][j] = f.rows[i][j] * factor

\* C33: change_vs_currency with a factor, entered with both ledgers present,
\* returns without an exception having multiplied every value other than
\* the timestamp in every row of prices.csv and of bundle_prices.csv by the
\* factor; the timestamps, the headers, the numbers of rows, ids.json and
\* bundles.json are as they were at its entry.
C33_ConvertAll ==
  [][(/\ fg.cmd = "change_vs_currency" /\ fg.pc # "idle" /\ fg'.pc = "idle"
      /\ fg.pre.prices.exists /\ fg.pre.bundle_prices.exists) =>
       /\ last'.ok
       /\ Converted(fg.pre.prices, prices', fg.w)
       /\ Converted(fg.pre.bundle_prices, bundle_prices', fg.w)
       /\ ids' = fg.pre.ids /\ bundles' = fg.pre.bundles]_vars


\* ------------------------------------------------- the read functions alone
\* Ledgers as the appends and rewrites leave them when nothing goes wrong:
\* prices.csv under the header "timestamp" + ids.json, every line with a
\* timestamp and a price >= 0 per id; bundle_prices.csv with the bundles'
\* sums of the same lines.  Short ledgers hold every combination of the
\* sample prices; long ledgers have the line counts around which
\* calculate_plotting_point_ratio changes.
MaxRows == 2
SamplePrices == {0, 1, 2, INITIAL_MIN + 1}
LongCounts == {1999, 2000, 2999, 3000}
IdLists == {<<>>, <<"btc">>, <<"btc", "eth">>}
BundleLists(idl) ==
  {<<>>} \cup
  IF idl = <<>> THEN {}
  ELSE {<<[id |-> "b1", cur |-> [c \in {idl[1]} |-> MaxWeight]]>>,
        <<[id |-> "b1", cur |-> [c \in {idl[1]} |-> MaxWeight]],
          [id |-> "b2", cur |-> <<>>]>>}
\* The line write_bundle_prices_entry appends for a line of prices.csv.
BundleLine(p, bs, line) ==
  LET d == DictReader(p.header, line)
  IN <<d.val[TS]>> \o [k \in DOMAIN bs |-> PriceSum(d, bs[k].cur)]

InitLoad ==
  /\ ids \in IdLists
  /\ bundles \in BundleLists(ids)
  /\ \/ \E n \in 0..MaxRows :
          \E v \in [1..n -> [1..Len(ids) -> SamplePrices]] :
            /\ prices = CsvFile(<<TS>> \o ids,
                                [i \in 1..n |-> <<i>> \o v[i]])
            /\ bundle_prices =
                 CsvFile(<<TS>> \o load_bundle_ids(bundles),
                         [i \in 1..n |->
                            BundleLine(prices, bundles, prices.rows[i])])
     \/ \E n \in LongCounts : \E m \in {n, n \div 2} :
          /\ Len(ids) = 1 /\ Len(bundles) = 1
          /\ prices = CsvFile(<<TS>> \o ids,
                              [i \in 1..n |->
                                 <<i>> \o [j \in 1..Len(ids) |->
                                             (i + j) % 4]])
          /\ bundle_prices =
               CsvFile(<<TS>> \o load_bundle_ids(bundles),
                       [i \in 1..m |->
                          BundleLine(prices, bundles, prices.rows[i])])
  /\ tmp = NoFile
  /\ updater = NoUpdater
  /\ bg = BgNone
  /\ fg = FgIdle
  /\ last = NoLast
  /\ clock = 0
  /\ ncmds = 0
  /\ calls = <<>>
  /\ sched = "sequential"
  /\ ret = NoRet

\* The ids a caller asks for: none (all), one, or two different ones.
Requests(S) ==
  {<<>>} \cup {<<a>> : a \in S}
         \cup {s \in {<<a, b>> : a \in S, b \in S} : s[1] # s[2]}

Returns(fn, request, r) ==
  /\ ret' = [fn |-> fn, request |-> request, ok |-> r.ok, val |-> r.val]
  /\ UNCHANGED <<ids, bundles, prices, bundle_prices, tmp, updater, bg, fg,
                 last, clock, ncmds, calls, sched>>

CallLoadPrices ==
  \E request \in Requests(Assets) :
    Returns("load_cryptocur_prices", request,
            load_cryptocur_prices(prices, ids, request))
CallLoadStatistics ==
  \E request \in Requests(Assets) :
    Returns("load_cryptocur_statistics", request,
            load_cryptocur_statistics(prices, ids, request))
CallRatio ==
  Returns("calculate_plotting_point_ratio", <<>>,
          [ok |-> prices.exists,
           val |-> calculate_plotting_point_ratio(prices)])
CallLoadPlotPrices ==
  \E request \in Requests(Assets) :
    Returns("load_cryptocur_plot_prices", request,
            load_cryptocur_plot_prices(prices, ids, request))
CallLoadBundlePlotPrices ==
  \E request \in Requests(BundleIds) :
    Returns("load_bundle_plot_prices", request,
            load_bundle_plot_prices(bundle_prices, prices, bundles, request))

NextLoad ==
  \/ CallLoadPrices
  \/ CallLoadStatistics
  \/ CallRatio
  \/ CallLoadPlotPrices
  \/ CallLoadBundlePlotPrices

SpecLoad == InitLoad /\ [][NextLoad]_vars

\* The values of column c of ledger f, line by line.
Column(f, c) == [i \in DOMAIN f.rows |-> f.rows[i][
                   CHOOSE j \in DOMAIN f.header : f.header[j] = c]]
NonZero(s) == SelectSeq(s, LAMBDA v : v # 0)
Asked == IF ret.request = <<>> THEN Range(ids) ELSE Range(ret.request)

C35_Statistics ==
  (ret.fn = "load_cryptocur_statistics" /\ Asked \subseteq Range(ids)) =>
    /\ ret.ok
    /\ DOMAIN ret.val = Asked
    /\ \A c \in Asked :
         LET nums == NonZero(Column(prices, c))
             st == ret.val[c]
         IN IF nums = <<>>
            THEN st.min = 0 /\ st.max = 0 /\ st.mean.sum = 0
            ELSE /\ st.min = Min(Range(nums))
                 /\ st.max = Max(Range(nums))
                 /\ st.mean.count = Len(nums)
                 /\ st.mean.sum = SeqSum(nums, 1, Len(nums))


\* What the plot loaders must have returned for ledger f and the columns
\* asked: with n the number of lines of prices.csv and r = 1 when n < 2000,
\* n div 1000 otherwise, the timestamps of the lines of f at the 0-based
\* positions 0, r, 2r, ... and for every column its values in those lines
\* that are not 0, in order.
PlotResultOf(f, columns) ==
  LET n == Len(prices.rows)
      r == IF n < 2000 THEN 1 ELSE n \div 1000
      count == (Len(f.rows) + r - 1) \div r
      picked(s) == [k \in 1..count |-> s[(k - 1) * r + 1]]
  IN /\ ret.ok
     /\ ret.val.timestamp = picked(Timestamps(f))
     /\ DOMAIN ret.val.cols = columns
     /\ \A c \in columns : ret.val.cols[c] = NonZero(picked(Column(f, c)))

C37_ResumedOnReturn ==
  [][(fg.cmd \in PausingCmds /\ fg.pc # "idle" /\ fg'.pc = "idle") =>
       updater'.status # "PAUSED"]_vars


\* The step in which add_new_cryptocurrency / remove_cryptocurrency writes
\* ids.json.
WritesIds == fg.cmd \in IdCmds /\ ids' # ids

\* C38: add_currency and remove_currency write ids.json only after the
\* rewrite of prices.csv has completed (tmp.csv renamed to prices.csv), so
\* a command whose rewrite raises returns with ids.json as it was at its
\* entry.
C38_RewriteBeforeRegistry ==
  [][/\ WritesIds => fg.pc \in {"rename", "set_ids"}
     /\ (Fails /\ fg.cmd \in IdCmds /\ fg.pc = "gen") => ids' = fg.pre.ids]_vars


\* C39: between commands and updates, bundle_prices.csv and prices.csv have
\* the same number of lines and their i-th lines carry the same timestamp;
\* bundle_prices.csv never has more lines than prices.csv.
C39_LedgersAligned ==
  /\ (FgQuiet /\ BgQuiet) =>
       /\ prices.exists /\ bundle_prices.exists
       /\ Timestamps(bundle_prices) = Timestamps(prices)
  /\ (prices.exists /\ bundle_prices.exists) =>
       Len(bundle_prices.rows) <= Len(prices.rows)


\* C40: an updater whose status is RUNNING or PAUSED has a non-empty list
\* of ids, whatever add_currency and remove_currency commands were given,
\* so that the thread never requests the prices of no id.
C40_TrackedNonEmpty ==
  /\ updater.status \in {"RUNNING", "PAUSED"} => updater.currency_ids # <<>>
  /\ bg.pc = "fetch" => updater.currency_ids # <<>>

====
